---- MODULE Spec2Model ----
(***************************************************************************)
(* Voting, score counters, the follow graph and the feeds of the Moltbook   *)
(* API.                                                                    *)
(*                                                                         *)
(* The persistent store is the shared state; every HTTP request is a call  *)
(* slot that advances one SQL statement (or one transaction boundary) at a *)
(* time, so requests interleave exactly where the code awaits the store.   *)
(*                                                                         *)
(* VoteService.js, SubmoltService.js, config/database.js and               *)
(* scripts/schema.sql are not part of the available sources: the vote      *)
(* transition, its transaction, the unique constraints, the column         *)
(* defaults and the subscription calls are modelled from the design        *)
(* document (sections 3, 4.1, 4.3 and 5).                                  *)
(***************************************************************************)
EXTENDS Integers, Sequences, FiniteSets, TLC

\* ---------------------------------------------------------------- bounds
NumVoters == 2
NumPosts == 1
NumVoteCalls == 2
MaxVoteRequests == 3
NumScoreCalls == 3
NumAgents == 2
NumFollowCalls == 2
MaxFollowRequests == 3

Voters == 1..NumVoters
Posts == 1..NumPosts
VoteCalls == 1..NumVoteCalls
ScoreCalls == 1..NumScoreCalls
Agents == 1..NumAgents
FollowCalls == 1..NumFollowCalls

Requested == {"up", "down"}
ScoreDeltas == {-2, -1, 1, 2}

VARIABLES
  nreq,         \* (history) number of vote requests made so far
  score,        \* posts.score, one entry per existing post row
  votes,        \* votes rows of each (voter, post) pair, as committed
  vcall,        \* vote requests in flight
  applied,      \* (history) sum of the deltas each voter's votes applied to a post
  deltaSum,     \* (history) sum of the deltas applied to each post
  last,         \* (history) the last vote request that ended
  scall,        \* PostService.updateScore calls in flight
  follows,      \* number of follows rows per (follower, followed) pair
  following_count, \* agents.following_count
  follower_count,  \* agents.follower_count
  fcall,        \* follow / unfollow calls in flight
  flast,        \* (history) how the last follow / unfollow call ended
  nfollow,      \* (history) number of follow / unfollow calls made so far
  posts,        \* posts rows: author_id, submolt, created_at, comment_count
  subscriptions, \* subscriptions rows, as (agent, submolt) pairs
  now,          \* the store's clock, in hours
  nextId,       \* the next post id the store hands out
  response,     \* what the last request or service call returned
  pageLog,      \* (history) the pages a client fetched of one feed
  dcall,        \* the PostService.delete call in flight
  ncalls,       \* (history) number of post and subscription calls made so far
  karma,        \* agents.karma
  kcall,        \* AgentService.updateKarma calls in flight
  received,     \* (history) sum of the score deltas votes applied to each agent's posts
  agents,       \* rows of the agents table, in the order of their INSERT
  acall,        \* AgentService.register and AgentService.claim calls
  nameUnique    \* whether the schema declares agents.name UNIQUE

vars == <<nreq, score, votes, vcall, applied, deltaSum, last, scall,
          follows, following_count, follower_count, fcall, flast, nfollow,
          posts, subscriptions, now, nextId, response, pageLog, dcall, ncalls,
          karma, kcall, received, agents, acall, nameUnique>>
voteVars == <<nreq, votes, vcall, applied, deltaSum, last>>
followVars == <<follows, following_count, follower_count, fcall, flast, nfollow>>
feedVars ==
  <<posts, subscriptions, now, nextId, response, pageLog, dcall, ncalls>>

karmaVars == <<karma, kcall, received>>
agentVars == <<agents, acall, nameUnique>>

\* No request has been answered yet.
NoResponse == [op |-> "none"]

\* No page of any feed has been fetched yet.
NoPages == [pages |-> <<>>]

\* No PostService.delete call is in flight.
NoDelete == [pc |-> "idle"]

\* Calls of AgentService.register and AgentService.claim in flight at once.
NumAgentCalls == 2
AgentCalls == 1..NumAgentCalls
NoAgentCall == [pc |-> "idle"]

\* No agent has registered and none is registering.
AgentsIdle ==
  /\ agents = <<>>
  /\ acall = [c \in AgentCalls |-> NoAgentCall]
  /\ nameUnique = TRUE

\* No vote has touched any agent's karma.
KarmaIdle ==
  /\ karma = [a \in Agents |-> 0]
  /\ kcall = {}
  /\ received = [a \in Agents |-> 0]

\* The feed tables are empty and no feed has been read.
FeedIdle ==
  /\ posts = <<>>
  /\ subscriptions = {}
  /\ now = 0
  /\ nextId = 1
  /\ response = NoResponse
  /\ pageLog = NoPages
  /\ dcall = NoDelete
  /\ ncalls = 0
  /\ KarmaIdle
  /\ AgentsIdle

\* ----------------------------------------------------------- PostService

\* PostService.create: the INSERT names no score, the row starts at the
\* column default.
DefaultScore == 0

\* UPDATE posts SET score = score + $2: the new value of the column.
ScoreOverwritten(cur, delta) == delta
ScoreSubtracted(cur, delta) == cur - delta
ScoreBumped(cur, delta) == cur + 1
ScoreAfterUpdate(cur, delta) == cur + delta

\* PostService.updateScore: one UPDATE statement; a missing row matches
\* nothing and the store is left as it was.
updateScore(sc, postId, delta) ==
  IF postId \in DOMAIN sc
    THEN [sc EXCEPT ![postId] = ScoreAfterUpdate(@, delta)]
    ELSE sc

\* PostService.create: a new posts row; ids are handed out in order.
CreatePost(p) ==
  /\ p \notin DOMAIN score
  /\ \A q \in Posts : q < p => q \in DOMAIN score
  /\ score' = [q \in DOMAIN score \cup {p} |->
                 IF q = p THEN DefaultScore ELSE score[q]]
  /\ UNCHANGED <<voteVars, scall, followVars, feedVars, karmaVars, agentVars>>

\* ----------------------------------------------------------- VoteService
\* (design document, sections 3, 4.1 and 5)

\* The voter's existing direction: absence of a row is "none".
CurrentDirection(rows) == IF rows = <<>> THEN "none" ELSE rows[1]

DirValue(d) == CASE d = "up" -> 1 [] d = "down" -> -1 [] OTHER -> 0

\* Transition table, score delta: a first vote counts once, a toggle takes
\* the vote back, a reversal counts twice.
VoteDeltaToggleIgnored(existing, requested) ==
  CASE existing = "none" -> DirValue(requested)
    [] existing = requested -> 0
    [] OTHER -> 2 * DirValue(requested)
VoteDelta(existing, requested) ==
  CASE existing = "none" -> DirValue(requested)
    [] existing = requested -> -DirValue(requested)
    [] OTHER -> 2 * DirValue(requested)

\* The Vote row: inserted on a first vote, deleted on a toggle, its
\* direction flipped on a reversal.
PersistKeepsNeutralRow(rows, existing, requested) ==
  CASE existing = "none" -> Append(rows, requested)
    [] existing = requested -> rows
    [] OTHER -> Append(rows, requested)
PersistVote(rows, existing, requested) ==
  CASE existing = "none" -> Append(rows, requested)
    [] existing = requested -> <<>>
    [] OTHER -> [i \in DOMAIN rows |-> requested]

InTransaction(c) == c.pc \in {"locked", "rowWritten"}

\* Votes of one (voter, target) pair serialize at the storage layer: the
\* pair is free when no open transaction holds it.
PairNeverLocked(calls, v, p) == TRUE
PairFree(calls, v, p) ==
  \A r \in DOMAIN calls :
    ~(InTransaction(calls[r]) /\ calls[r].voter = v /\ calls[r].post = p)

\* What other connections see of a row written inside an open transaction:
\* the committed rows, until COMMIT.
SeenUncommitted(committed, written) == written
SeenByOthers(committed, written) == committed

IdleVote ==
  [pc |-> "idle", voter |-> 0, post |-> 0, dir |-> "none", old |-> "none"]
NoVote == [outcome |-> "none", at |-> "idle", old |-> "none", dir |-> "none"]
Ended(outcome, at, old, dir) ==
  [outcome |-> outcome, at |-> at, old |-> old, dir |-> dir]

\* Call slots are interchangeable: a request takes the lowest free one, and
\* at most MaxVoteRequests requests are made in all.
Admitted(r) ==
  /\ vcall[r].pc = "idle"
  /\ \A q \in VoteCalls : q < r => vcall[q].pc # "idle"
  /\ nreq < MaxVoteRequests
  /\ nreq' = nreq + 1

\* router.post('/:id/upvote') and router.post('/:id/downvote') on a target
\* that does not exist: NotFound, nothing is written.
VoteNotFound(r, v, p, d) ==
  /\ Admitted(r)
  /\ p \notin DOMAIN score
  /\ last' = Ended("NotFoundError", "idle", "none", d)
  /\ UNCHANGED <<score, votes, vcall, applied, deltaSum, scall, followVars, feedVars, karmaVars, agentVars>>

\* router.post('/:id/upvote') and router.post('/:id/downvote'): the request
\* of voter v opens its transaction, which waits for the pair and then reads
\* the voter's existing direction.
VoteBegin(r, v, p, d) ==
  /\ Admitted(r)
  /\ p \in DOMAIN score
  /\ PairFree(vcall, v, p)
  /\ vcall' = [vcall EXCEPT ![r] =
       [pc |-> "locked", voter |-> v, post |-> p, dir |-> d,
        old |-> CurrentDirection(votes[v, p])]]
  /\ UNCHANGED <<score, votes, applied, deltaSum, last, scall, followVars, feedVars, karmaVars, agentVars>>

\* First write of the transaction: the Vote row.
VoteWriteRow(r) ==
  LET c == vcall[r] IN
  /\ c.pc = "locked"
  /\ vcall' = [vcall EXCEPT ![r].pc = "rowWritten"]
  /\ votes' = [votes EXCEPT ![c.voter, c.post] =
                 SeenByOthers(@, PersistVote(@, c.old, c.dir))]
  /\ UNCHANGED <<nreq, score, applied, deltaSum, last, scall, followVars, feedVars, karmaVars, agentVars>>

\* Second write, the score delta, and COMMIT: both writes become visible.
\* deltaSum adds the table's delta for the direction the voter holds at
\* commit time, applied adds what the score really moved by.
VoteTransactionCommit(r) ==
  LET c == vcall[r]
      newScore == updateScore(score, c.post, VoteDelta(c.old, c.dir))
      held == CurrentDirection(votes[c.voter, c.post])
  IN
  /\ c.pc = "rowWritten"
  /\ votes' = [votes EXCEPT ![c.voter, c.post] = PersistVote(@, c.old, c.dir)]
  /\ score' = newScore
  /\ applied' = [applied EXCEPT ![c.voter, c.post] =
                   IF c.post \in DOMAIN score
                     THEN @ + newScore[c.post] - score[c.post]
                     ELSE @]
  /\ deltaSum' = [deltaSum EXCEPT ![c.post] =
                    @ + (IF held = c.dir THEN 0 ELSE DirValue(c.dir))
                      - DirValue(held)]
  /\ vcall' = [vcall EXCEPT ![r] = IdleVote]
  /\ last' = Ended("ok", c.pc, c.old, c.dir)
  /\ UNCHANGED <<nreq, scall, followVars, feedVars>>

\* The COMMIT where the author's karma is not followed.
VoteCommit(r) ==
  /\ VoteTransactionCommit(r)
  /\ UNCHANGED <<karmaVars, agentVars>>

\* The operation fails or the process dies inside the transaction: ROLLBACK.
VoteAbort(r) ==
  /\ InTransaction(vcall[r])
  /\ vcall' = [vcall EXCEPT ![r] = IdleVote]
  /\ last' = Ended("failed", vcall[r].pc, vcall[r].old, vcall[r].dir)
  /\ UNCHANGED <<nreq, score, votes, applied, deltaSum, scall, followVars, feedVars, karmaVars, agentVars>>

IdleScoreCall == [pc |-> "idle", post |-> 0, delta |-> 0]
NoFollowCall == [pc |-> "idle", follower |-> 0, followed |-> 0, pending |-> {}]

InitVote ==
  /\ nreq = 0
  /\ score = <<>>
  /\ votes = [x \in Voters \X Posts |-> <<>>]
  /\ vcall = [r \in VoteCalls |-> IdleVote]
  /\ applied = [x \in Voters \X Posts |-> 0]
  /\ deltaSum = [p \in Posts |-> 0]
  /\ last = NoVote
  /\ scall = [c \in ScoreCalls |-> IdleScoreCall]
  /\ follows = [x \in Agents \X Agents |-> 0]
  /\ following_count = [a \in Agents |-> 0]
  /\ follower_count = [a \in Agents |-> 0]
  /\ fcall = [c \in FollowCalls |-> NoFollowCall]
  /\ flast = "none"
  /\ nfollow = 0
  /\ FeedIdle

NextVote ==
  \/ \E p \in Posts : CreatePost(p)
  \/ \E r \in VoteCalls, v \in Voters, p \in Posts, d \in Requested :
       VoteNotFound(r, v, p, d)
  \/ \E r \in VoteCalls, v \in Voters, p \in Posts, d \in Requested :
       VoteBegin(r, v, p, d)
  \/ \E r \in VoteCalls : VoteWriteRow(r)
  \/ \E r \in VoteCalls : VoteCommit(r)
  \/ \E r \in VoteCalls : VoteAbort(r)

SpecVote == InitVote /\ [][NextVote]_vars

\* ------------------------------------------- concurrent updateScore calls

\* A caller issues PostService.updateScore(p, d); the statement has not
\* reached the store yet.
ScoreCallIssue(c, p, d) ==
  /\ scall[c].pc = "idle"
  /\ \A q \in ScoreCalls : q < c => scall[q].pc # "idle"
  /\ scall' = [scall EXCEPT ![c] = [pc |-> "pending", post |-> p, delta |-> d]]
  /\ UNCHANGED <<score, voteVars, followVars, feedVars, karmaVars, agentVars>>

\* PostService.updateScore: the store executes the UPDATE.
ScoreCallRun(c) ==
  /\ scall[c].pc = "pending"
  /\ score' = updateScore(score, scall[c].post, scall[c].delta)
  /\ scall' = [scall EXCEPT ![c].pc = "done"]
  /\ UNCHANGED <<voteVars, followVars, feedVars, karmaVars, agentVars>>

InitScore ==
  /\ nreq = 0
  /\ score = [p \in Posts |-> DefaultScore]
  /\ votes = [x \in Voters \X Posts |-> <<>>]
  /\ vcall = [r \in VoteCalls |-> IdleVote]
  /\ applied = [x \in Voters \X Posts |-> 0]
  /\ deltaSum = [p \in Posts |-> 0]
  /\ last = NoVote
  /\ scall = [c \in ScoreCalls |-> IdleScoreCall]
  /\ follows = [x \in Agents \X Agents |-> 0]
  /\ following_count = [a \in Agents |-> 0]
  /\ follower_count = [a \in Agents |-> 0]
  /\ fcall = [c \in FollowCalls |-> NoFollowCall]
  /\ flast = "none"
  /\ nfollow = 0
  /\ FeedIdle

NextScore ==
  \/ \E c \in ScoreCalls, p \in Posts, d \in ScoreDeltas : ScoreCallIssue(c, p, d)
  \/ \E c \in ScoreCalls : ScoreCallRun(c)

SpecScore == InitScore /\ [][NextScore]_vars

\* ---------------------------------------------------------- AgentService

\* AgentService.follow: the guard against following oneself.
SelfFollowAllowed(followerId, followedId) == FALSE
SelfFollow(followerId, followedId) == followerId = followedId

\* AgentService.follow: SELECT id FROM follows WHERE follower_id, followed_id.
AlreadyFollowingIgnored(f, followerId, followedId) == FALSE
AlreadyFollowing(f, followerId, followedId) == f[followerId, followedId] > 0

\* The three statements of the follow transaction.
InsertFollow(f, followerId, followedId) ==
  [f EXCEPT ![followerId, followedId] = @ + 1]
Incremented(cnt, id) == [cnt EXCEPT ![id] = @ + 1]

\* The statements of unfollow.
DeleteFollow(f, followerId, followedId) ==
  [f EXCEPT ![followerId, followedId] = 0]
Decremented(cnt, id) == [cnt EXCEPT ![id] = @ - 1]

\* follows is unique per (follower, followed): an INSERT of a pair that has
\* a row fails.
NoUniqueConstraint(f, followerId, followedId) == FALSE
UniqueViolation(f, followerId, followedId) == f[followerId, followedId] >= 1

\* transaction(): COMMIT publishes the statements together; when one of
\* them throws, ROLLBACK leaves the store as it was before the first.
RolledBack(before, partial) == before

\* Call slots are interchangeable: a call takes the lowest free one, and at
\* most MaxFollowRequests calls are made in all.
FollowAdmitted(c) ==
  /\ fcall[c].pc = "idle"
  /\ \A q \in FollowCalls : q < c => fcall[q].pc # "idle"
  /\ nfollow < MaxFollowRequests
  /\ nfollow' = nfollow + 1

\* follow(a, a): BadRequestError, thrown before the first query.
FollowSelf(c, a, b) ==
  /\ FollowAdmitted(c)
  /\ SelfFollow(a, b)
  /\ flast' = "BadRequestError"
  /\ UNCHANGED <<follows, following_count, follower_count, fcall>>
  /\ UNCHANGED <<score, voteVars, scall, feedVars, karmaVars, agentVars>>

\* follow(a, b): the 'already following' check.
FollowCheck(c, a, b) ==
  /\ FollowAdmitted(c)
  /\ ~SelfFollow(a, b)
  /\ IF AlreadyFollowing(follows, a, b)
       THEN /\ flast' = "already_following"
            /\ UNCHANGED fcall
       ELSE /\ fcall' = [fcall EXCEPT ![c] =
                 [pc |-> "checked", follower |-> a, followed |-> b,
                  pending |-> {}]]
            /\ UNCHANGED flast
  /\ UNCHANGED <<follows, following_count, follower_count>>
  /\ UNCHANGED <<score, voteVars, scall, feedVars, karmaVars, agentVars>>

\* follow(a, b): the transaction runs its three statements and commits.
FollowCommit(c) ==
  LET a == fcall[c].follower
      b == fcall[c].followed
  IN
  /\ fcall[c].pc = "checked"
  /\ ~UniqueViolation(follows, a, b)
  /\ follows' = InsertFollow(follows, a, b)
  /\ following_count' = Incremented(following_count, a)
  /\ follower_count' = Incremented(follower_count, b)
  /\ fcall' = [fcall EXCEPT ![c] = NoFollowCall]
  /\ flast' = "followed"
  /\ UNCHANGED <<nfollow, score, voteVars, scall, feedVars, karmaVars, agentVars>>

\* follow(a, b): the INSERT meets a row another call committed since the
\* check; the transaction is rolled back and the error reaches the caller.
FollowDuplicate(c) ==
  LET a == fcall[c].follower
      b == fcall[c].followed
  IN
  /\ fcall[c].pc = "checked"
  /\ UniqueViolation(follows, a, b)
  /\ UNCHANGED <<follows, following_count, follower_count>>
  /\ fcall' = [fcall EXCEPT ![c] = NoFollowCall]
  /\ flast' = "duplicate_key"
  /\ UNCHANGED <<nfollow, score, voteVars, scall, feedVars, karmaVars, agentVars>>

\* follow(a, b): the k-th statement of the transaction fails in the store
\* after the ones before it ran; the transaction is rolled back.
FollowFail(c, k) ==
  LET a == fcall[c].follower
      b == fcall[c].followed
  IN
  /\ fcall[c].pc = "checked"
  /\ k > 1 => ~UniqueViolation(follows, a, b)
  /\ follows' =
       RolledBack(follows, IF k > 1 THEN InsertFollow(follows, a, b) ELSE follows)
  /\ following_count' =
       RolledBack(following_count,
                  IF k > 2 THEN Incremented(following_count, a)
                  ELSE following_count)
  /\ UNCHANGED follower_count
  /\ fcall' = [fcall EXCEPT ![c] = NoFollowCall]
  /\ flast' = "follow_failed"
  /\ UNCHANGED <<nfollow, score, voteVars, scall, feedVars, karmaVars, agentVars>>

\* unfollow(a, b): DELETE ... RETURNING id. Without a row the call returns
\* 'not_following'; with one, the two counter updates are issued together.
UnfollowDelete(c, a, b) ==
  /\ FollowAdmitted(c)
  /\ IF follows[a, b] = 0
       THEN /\ flast' = "not_following"
            /\ UNCHANGED <<follows, fcall>>
       ELSE /\ follows' = DeleteFollow(follows, a, b)
            /\ fcall' = [fcall EXCEPT ![c] =
                 [pc |-> "deleted", follower |-> a, followed |-> b,
                  pending |-> {"following_count", "follower_count"}]]
            /\ UNCHANGED flast
  /\ UNCHANGED <<following_count, follower_count>>
  /\ UNCHANGED <<score, voteVars, scall, feedVars, karmaVars, agentVars>>

\* The call returns once both updates of Promise.all are settled.
Settled(c, which, outcome) ==
  LET left == fcall[c].pending \ {which} IN
  IF left = {}
    THEN /\ fcall' = [fcall EXCEPT ![c] = NoFollowCall]
         /\ flast' = outcome
    ELSE /\ fcall' = [fcall EXCEPT ![c].pending = left]
         /\ UNCHANGED flast

\* unfollow(a, b): UPDATE agents SET following_count = following_count - 1.
UnfollowDecFollowing(c) ==
  /\ fcall[c].pc = "deleted"
  /\ "following_count" \in fcall[c].pending
  /\ following_count' = Decremented(following_count, fcall[c].follower)
  /\ Settled(c, "following_count", "unfollowed")
  /\ UNCHANGED <<follows, follower_count, nfollow, score, voteVars, scall, feedVars, karmaVars, agentVars>>

\* unfollow(a, b): UPDATE agents SET follower_count = follower_count - 1.
UnfollowDecFollower(c) ==
  /\ fcall[c].pc = "deleted"
  /\ "follower_count" \in fcall[c].pending
  /\ follower_count' = Decremented(follower_count, fcall[c].followed)
  /\ Settled(c, "follower_count", "unfollowed")
  /\ UNCHANGED <<follows, following_count, nfollow, score, voteVars, scall, feedVars, karmaVars, agentVars>>

\* unfollow(a, b): one of the two updates fails in the store; the DELETE
\* and the other update are statements of their own and stay.
UnfollowUpdateFails(c, which) ==
  /\ fcall[c].pc = "deleted"
  /\ which \in fcall[c].pending
  /\ Settled(c, which, "unfollow_failed")
  /\ UNCHANGED <<follows, following_count, follower_count, nfollow>>
  /\ UNCHANGED <<score, voteVars, scall, feedVars, karmaVars, agentVars>>

InitFollow ==
  /\ nreq = 0
  /\ score = <<>>
  /\ votes = [x \in Voters \X Posts |-> <<>>]
  /\ vcall = [r \in VoteCalls |-> IdleVote]
  /\ applied = [x \in Voters \X Posts |-> 0]
  /\ deltaSum = [p \in Posts |-> 0]
  /\ last = NoVote
  /\ scall = [c \in ScoreCalls |-> IdleScoreCall]
  /\ follows = [x \in Agents \X Agents |-> 0]
  /\ following_count = [a \in Agents |-> 0]
  /\ follower_count = [a \in Agents |-> 0]
  /\ fcall = [c \in FollowCalls |-> NoFollowCall]
  /\ flast = "none"
  /\ nfollow = 0
  /\ FeedIdle

NextFollow ==
  \/ \E c \in FollowCalls, a \in Agents, b \in Agents : FollowSelf(c, a, b)
  \/ \E c \in FollowCalls, a \in Agents, b \in Agents : FollowCheck(c, a, b)
  \/ \E c \in FollowCalls : FollowCommit(c)
  \/ \E c \in FollowCalls : FollowDuplicate(c)
  \/ \E c \in FollowCalls, k \in 1..3 : FollowFail(c, k)
  \/ \E c \in FollowCalls, a \in Agents, b \in Agents : UnfollowDelete(c, a, b)
  \/ \E c \in FollowCalls : UnfollowDecFollowing(c)
  \/ \E c \in FollowCalls : UnfollowDecFollower(c)
  \/ \E c \in FollowCalls, w \in {"following_count", "follower_count"} :
       UnfollowUpdateFails(c, w)

SpecFollow == InitFollow /\ [][NextFollow]_vars

\* ------------------------------------------------------------ properties

TransitionTable ==
  { <<"none", "up", "up", 1>>, <<"none", "down", "down", -1>>,
    <<"up", "up", "none", -1>>, <<"down", "down", "none", 1>>,
    <<"up", "down", "down", -2>>, <<"down", "up", "up", 2>> }

Committing(r) ==
  /\ vcall[r].pc = "rowWritten"
  /\ vcall'[r].pc = "idle"
  /\ last'.outcome = "ok"

Aborting(r) ==
  /\ InTransaction(vcall[r])
  /\ vcall'[r].pc = "idle"
  /\ last'.outcome = "failed"

\* C1: a vote operation takes the (voter, target) pair from its existing
\* direction to the resulting direction of the transition table and moves
\* the target's score by exactly the table's delta.
C1_VoteFollowsTable ==
  [][\A r \in VoteCalls :
       Committing(r) =>
         LET v == vcall[r].voter
             p == vcall[r].post
         IN \E row \in TransitionTable :
              /\ row[1] = CurrentDirection(votes[v, p])
              /\ row[2] = vcall[r].dir
              /\ CurrentDirection(votes'[v, p]) = row[3]
              /\ score'[p] = score[p] + row[4]]_vars

\* A reversal has been applied: up, then down, takes the score from 1 to -1.
C1_Witness ==
  /\ last.outcome = "ok" /\ last.old = "up" /\ last.dir = "down"
  /\ \E p \in DOMAIN score : score[p] = -1

UpVoters(p) == {v \in Voters : CurrentDirection(votes[v, p]) = "up"}
DownVoters(p) == {v \in Voters : CurrentDirection(votes[v, p]) = "down"}

\* C2: the stored score of a target created with score 0 is the sum of the
\* deltas of the applied transitions, which is the number of voters whose
\* direction is up minus the number whose direction is down.
C2_ScoreIsSumOfDeltas ==
  \A p \in DOMAIN score :
    /\ score[p] = deltaSum[p]
    /\ score[p] = Cardinality(UpVoters(p)) - Cardinality(DownVoters(p))

\* Two distinct voters hold a vote on the same target, one up and one down.
C2_Witness ==
  \E p \in DOMAIN score :
    /\ UpVoters(p) # {} /\ DownVoters(p) # {}
    /\ score[p] = 0 /\ nreq >= 2

\* C3: at most one Vote row exists per (voter, target) pair, and none when
\* the voter's votes on the target cancel out (direction none).
C3_AtMostOneVoteRow ==
  \A x \in Voters \X Posts :
    /\ Len(votes[x]) <= 1
    /\ applied[x] = 0 => votes[x] = <<>>

\* A voter toggled a vote off; no row is left.
C3_Witness ==
  /\ last.outcome = "ok" /\ last.old = last.dir
  /\ \A x \in Voters \X Posts : votes[x] = <<>>

RowsOf(vs, p) == [v \in Voters |-> vs[v, p]]

RECURSIVE SumDeltas(_, _)
SumDeltas(cs, p) ==
  IF cs = {} THEN 0
  ELSE LET c == CHOOSE x \in cs : TRUE
       IN (IF scall[c].pc = "done" /\ scall[c].post = p
             THEN scall[c].delta ELSE 0) + SumDeltas(cs \ {c}, p)

\* C6: concurrent updateScore calls on an existing post commute and none is
\* lost: the score is the initial score plus the deltas of the calls the
\* store has executed, whatever the order.
C6_NoLostScoreUpdate ==
  \A p \in DOMAIN score : score[p] = DefaultScore + SumDeltas(ScoreCalls, p)

\* All calls are done, two of them on the same post with different
\* deltas.
C6_Witness ==
  /\ \A c \in ScoreCalls : scall[c].pc = "done"
  /\ \E c, d \in ScoreCalls :
       scall[c].post = scall[d].post /\ scall[c].delta # scall[d].delta

RECURSIVE RowCount(_, _)
RowCount(f, pairs) ==
  IF pairs = {} THEN 0
  ELSE LET x == CHOOSE y \in pairs : TRUE
       IN f[x] + RowCount(f, pairs \ {x})

\* SELECT COUNT(*) FROM follows WHERE follower_id = a, and WHERE followed_id = a.
FollowingRows(a) == RowCount(follows, {a} \X Agents)
FollowerRows(a) == RowCount(follows, Agents \X {a})

\* C7: in every state, also between the statements of follow and unfollow,
\* each agent's follower_count is the number of Follow rows that name it as
\* followed and its following_count the number that name it as follower.
C7_CountsMatchRows ==
  \A a \in Agents :
    /\ follower_count[a] = FollowerRows(a)
    /\ following_count[a] = FollowingRows(a)

Quiescent == \A c \in FollowCalls : fcall[c].pc = "idle"

\* C8: follow and unfollow are all-or-nothing over their three writes: once
\* no call is running, no relation change is left without its two counter
\* changes, also when one of the writes failed.
C8_AllOrNothing ==
  Quiescent =>
    \A a \in Agents :
      /\ follower_count[a] = FollowerRows(a)
      /\ following_count[a] = FollowingRows(a)

\* C9: the Follow relation holds at most one row per (follower, followed)
\* pair, and a counter only ever goes up by one, together with the other
\* counter, in the step that inserts the pair's one row.
C9_OneRowOneIncrement ==
  /\ [](\A x \in Agents \X Agents : follows[x] <= 1)
  /\ [][\A a \in Agents :
          /\ following_count'[a] > following_count[a] =>
               \E b \in Agents :
                 /\ follows[a, b] = 0 /\ follows'[a, b] = 1
                 /\ following_count'[a] = following_count[a] + 1
                 /\ follower_count'[b] = follower_count[b] + 1
          /\ follower_count'[a] > follower_count[a] =>
               \E b \in Agents :
                 /\ follows[b, a] = 0 /\ follows'[b, a] = 1
                 /\ follower_count'[a] = follower_count[a] + 1
                 /\ following_count'[b] = following_count[b] + 1]_vars

\* Two follow(a, b) calls both passed the check; one inserted the row and
\* the other met it.
C9_Witness ==
  /\ flast = "duplicate_key"
  /\ \E a, b \in Agents :
       follows[a, b] = 1 /\ following_count[a] = 1 /\ follower_count[b] = 1

\* C10: follow(a, a) fails with BadRequestError before any read or write:
\* no Follow row ever has follower = followed, and the call that fails so
\* (it starts no query) changes neither the relation nor a counter.
C10_NoSelfFollow ==
  /\ [](\A a \in Agents : follows[a, a] = 0)
  /\ [][(nfollow' # nfollow /\ fcall' = fcall /\ flast' = "BadRequestError") =>
          UNCHANGED <<follows, following_count, follower_count>>]_vars

\* follow(a, a) has just failed while another agent is followed.
C10_Witness ==
  /\ flast = "BadRequestError"
  /\ \E a, b \in Agents : a # b /\ follows[a, b] = 1

\* ======================================================== the feeds
\* PostService.getFeed and PostService.getPersonalizedFeed, the routes that
\* call them, and the operations that change what a feed shows.

\* ---------------------------------------------------------------- bounds
NumFeedPosts == 2
MaxTime == 2

FeedPosts == 1..NumFeedPosts
Times == 0..MaxTime
Submolts == {"general", "tech"}
FeedScores == {-2, 0, 1}

\* Values of the sort parameter: the four documented modes and one the
\* switch statements do not know.
SortInputs == {"hot", "new", "top", "rising", "unknown"}

\* ------------------------------------------------------------- ORDER BY
HotDivisor == 45000
SecondsPerHour == 3600

Abs(n) == IF n < 0 THEN -n ELSE n
Sign(n) == IF n > 0 THEN 1 ELSE IF n < 0 THEN -1 ELSE 0
Greatest(a, b) == IF a > b THEN a ELSE b

\* 1000 * log10(n), rounded to the nearest integer.
Log10Milli(n) ==
  CASE n = 1 -> 0
    [] n = 2 -> 301
    [] n = 3 -> 477
    [] n = 4 -> 602
    [] n = 5 -> 699
    [] n = 6 -> 778
    [] n = 7 -> 845
    [] n = 8 -> 903
    [] n = 9 -> 954
    [] OTHER -> 1000

\* LOG(GREATEST(ABS(p.score), 1)) * SIGN(p.score)
\*   + EXTRACT(EPOCH FROM p.created_at) / 45000,
\* multiplied by 45000 * 1000 so that it stays an integer.
HotKeyOldestFirst(p) ==
  Log10Milli(Greatest(Abs(score[p]), 1)) * Sign(score[p]) * HotDivisor
    - posts[p].created_at * SecondsPerHour * 1000
HotKey(p) ==
  Log10Milli(Greatest(Abs(score[p]), 1)) * Sign(score[p]) * HotDivisor
    + posts[p].created_at * SecondsPerHour * 1000

\* EXTRACT(EPOCH FROM (NOW() - p.created_at)) / 3600 + 2
RisingAge(p) == (now - posts[p].created_at) + 2

\* a1 / POWER(b1, 1.5) > a2 / POWER(b2, 1.5) for positive b1 and b2, decided
\* on the squares so that no root is taken.
RatioGreater(a1, b1, a2, b2) ==
  CASE a1 > 0 /\ a2 > 0 -> a1 * a1 * b2 * b2 * b2 > a2 * a2 * b1 * b1 * b1
    [] a1 > 0 /\ a2 <= 0 -> TRUE
    [] a1 = 0 -> a2 < 0
    [] OTHER -> a2 < 0 /\ a1 * a1 * b2 * b2 * b2 < a2 * a2 * b1 * b1 * b1

\* (p.score + 1) / POWER(age in hours + 2, 1.5) DESC
RisingFirst(p, q) ==
  RatioGreater(score[p] + 1, RisingAge(p), score[q] + 1, RisingAge(q))

\* p.created_at DESC
NewFirst(p, q) == posts[p].created_at > posts[q].created_at

\* p.score DESC, p.created_at DESC
TopFirstNewestOnly(p, q) == NewFirst(p, q)
TopFirst(p, q) ==
  \/ score[p] > score[q]
  \/ score[p] = score[q] /\ NewFirst(p, q)

\* the hot expression, DESC
HotFirst(p, q) == HotKey(p) > HotKey(q)

\* The switch of PostService.getFeed: TRUE when the ORDER BY clause chosen
\* for sort puts row p strictly before row q.
FeedOrderBy(sort, p, q) ==
  CASE sort = "new" -> NewFirst(p, q)
    [] sort = "top" -> TopFirst(p, q)
    [] sort = "rising" -> RisingFirst(p, q)
    [] OTHER -> HotFirst(p, q)

\* The switch of PostService.getPersonalizedFeed.
PersonalizedOrderBy(sort, p, q) ==
  CASE sort = "new" -> NewFirst(p, q)
    [] sort = "top" -> score[p] > score[q]
    [] OTHER -> HotFirst(p, q)

\* ------------------------------------------------------- candidate rows
DefaultLimit == 25
Null == "null"

\* LOWER($n) on the submolt names a request can carry.
ToLowerCase(name) ==
  CASE name = "General" -> "general"
    [] OTHER -> name
SubmoltInputs == Submolts \cup {"General"}

\* WHERE 1=1 [AND p.submolt = $3] of PostService.getFeed.
FeedCandidates(submolt) ==
  {p \in DOMAIN posts : submolt = Null \/ posts[p].submolt = ToLowerCase(submolt)}

\* EXISTS (... subscriptions ...) OR EXISTS (... follows ...) of
\* PostService.getPersonalizedFeed.
SubscribedTo(agentId, p) == <<agentId, posts[p].submolt>> \in subscriptions
Follows(agentId, p) == follows[<<agentId, posts[p].author_id>>] > 0
CandidateOnlyIfBoth(agentId, p) == SubscribedTo(agentId, p) /\ Follows(agentId, p)
IsCandidate(agentId, p) == SubscribedTo(agentId, p) \/ Follows(agentId, p)
PersonalizedCandidates(agentId) == {p \in DOMAIN posts : IsCandidate(agentId, p)}

\* The orders in which a SELECT ... ORDER BY can return the rows cands: every
\* arrangement in which no row comes after one the clause puts strictly
\* behind it. Rows the clause does not tell apart come in any order. first
\* holds the pairs <<p, q>> of which the clause puts p strictly before q.
Orderings(cands, first) ==
  {ord \in [1..Cardinality(cands) -> cands] :
     /\ \A i, j \in DOMAIN ord : i # j => ord[i] # ord[j]
     /\ \A i, j \in DOMAIN ord : i < j => <<ord[j], ord[i]>> \notin first}

\* LIMIT limit OFFSET offset
Least(a, b) == IF a < b THEN a ELSE b
Window(ord, limit, offset) ==
  SubSeq(ord, offset + 1, Least(offset + limit, Len(ord)))

\* PostService.getFeed: the rows one call returns.
getFeed(sort, limit, offset, submolt) ==
  {Window(ord, limit, offset) :
     ord \in Orderings(FeedCandidates(submolt),
                       {x \in (DOMAIN posts) \X (DOMAIN posts) :
                          FeedOrderBy(sort, x[1], x[2])})}

\* PostService.getPersonalizedFeed: the rows one call returns.
getPersonalizedFeed(agentId, sort, limit, offset) ==
  {Window(ord, limit, offset) :
     ord \in Orderings(PersonalizedCandidates(agentId),
                       {x \in (DOMAIN posts) \X (DOMAIN posts) :
                          PersonalizedOrderBy(sort, x[1], x[2])})}

\* ------------------------------------------------- reading a settled store
\* The tables hold NumFeedPosts posts of agent 1 with any scores and creation
\* times; agent 2 subscribes to "general" and nobody follows anybody.

\* A caller reads the global or a submolt's feed with the service's default
\* limit and offset.
GetFeedCall(sort, submolt) ==
  /\ \E rows \in getFeed(sort, DefaultLimit, 0, submolt) :
       response' = [op |-> "getFeed", sort |-> sort, submolt |-> submolt,
                    viewer |-> 0, items |-> rows]
  /\ UNCHANGED <<score, voteVars, scall, followVars, karmaVars, agentVars>>
  /\ UNCHANGED <<posts, subscriptions, now, nextId, pageLog, dcall, ncalls>>

\* A caller reads an agent's personalized feed with the default limit and
\* offset.
GetPersonalizedFeedCall(agentId, sort) ==
  /\ \E rows \in getPersonalizedFeed(agentId, sort, DefaultLimit, 0) :
       response' = [op |-> "getPersonalizedFeed", sort |-> sort,
                    submolt |-> Null, viewer |-> agentId, items |-> rows]
  /\ UNCHANGED <<score, voteVars, scall, followVars, karmaVars, agentVars>>
  /\ UNCHANGED <<posts, subscriptions, now, nextId, pageLog, dcall, ncalls>>

InitRank ==
  /\ nreq = 0
  /\ score \in [FeedPosts -> FeedScores]
  /\ votes = [x \in Voters \X Posts |-> <<>>]
  /\ vcall = [r \in VoteCalls |-> IdleVote]
  /\ applied = [x \in Voters \X Posts |-> 0]
  /\ deltaSum = [p \in Posts |-> 0]
  /\ last = NoVote
  /\ scall = [c \in ScoreCalls |-> IdleScoreCall]
  /\ follows = [x \in Agents \X Agents |-> 0]
  /\ following_count = [a \in Agents |-> 0]
  /\ follower_count = [a \in Agents |-> 0]
  /\ fcall = [c \in FollowCalls |-> NoFollowCall]
  /\ flast = "none"
  /\ nfollow = 0
  /\ posts \in [FeedPosts -> [author_id : {1}, submolt : Submolts,
                              created_at : Times, comment_count : {0}]]
  /\ subscriptions = {<<2, "general">>}
  /\ now = MaxTime
  /\ nextId = NumFeedPosts + 1
  /\ response = NoResponse
  /\ pageLog = NoPages
  /\ dcall = NoDelete
  /\ ncalls = 0
  /\ KarmaIdle
  /\ AgentsIdle

\* One read of each drawn store.
NextRank ==
  \/ /\ response = NoResponse
     /\ \E sort \in SortInputs, submolt \in {Null} \cup SubmoltInputs :
          GetFeedCall(sort, submolt)
  \/ /\ response = NoResponse
     /\ \E agentId \in Agents, sort \in SortInputs :
          GetPersonalizedFeedCall(agentId, sort)

SpecRank == InitRank /\ [][NextRank]_vars

\* ------------------------------------------- reading a personalized feed
\* The tables hold NumFeedPosts posts, created one per hour by any authors in
\* any submolts, and at most MaxRows subscription and follow rows.
MaxRows == 2

SubscriptionRows == {<<"subscription", a, m>> : a \in Agents, m \in Submolts}
FollowRows == {<<"follow", x[1], x[2]>> : x \in {y \in Agents \X Agents : y[1] # y[2]}}

InitPersonal ==
  /\ nreq = 0
  /\ score = [p \in FeedPosts |-> DefaultScore]
  /\ votes = [x \in Voters \X Posts |-> <<>>]
  /\ vcall = [r \in VoteCalls |-> IdleVote]
  /\ applied = [x \in Voters \X Posts |-> 0]
  /\ deltaSum = [p \in Posts |-> 0]
  /\ last = NoVote
  /\ scall = [c \in ScoreCalls |-> IdleScoreCall]
  /\ \E rows \in {r \in SUBSET (SubscriptionRows \cup FollowRows) :
                    Cardinality(r) <= MaxRows} :
       /\ subscriptions = {<<r[2], r[3]>> : r \in rows \cap SubscriptionRows}
       /\ follows = [x \in Agents \X Agents |->
                       IF <<"follow", x[1], x[2]>> \in rows THEN 1 ELSE 0]
       /\ following_count = [a \in Agents |->
            Cardinality({r \in rows \cap FollowRows : r[2] = a})]
       /\ follower_count = [a \in Agents |->
            Cardinality({r \in rows \cap FollowRows : r[3] = a})]
  /\ fcall = [c \in FollowCalls |-> NoFollowCall]
  /\ flast = "none"
  /\ nfollow = 0
  /\ \E author \in [FeedPosts -> Agents], submolt \in [FeedPosts -> Submolts] :
       posts = [p \in FeedPosts |->
                  [author_id |-> author[p], submolt |-> submolt[p],
                   created_at |-> p, comment_count |-> 0]]
  /\ now = NumFeedPosts
  /\ nextId = NumFeedPosts + 1
  /\ response = NoResponse
  /\ pageLog = NoPages
  /\ dcall = NoDelete
  /\ ncalls = 0
  /\ KarmaIdle
  /\ AgentsIdle

NextPersonal ==
  /\ response = NoResponse
  /\ \E agentId \in Agents, sort \in {"hot", "new"} :
       GetPersonalizedFeedCall(agentId, sort)

SpecPersonal == InitPersonal /\ [][NextPersonal]_vars

\* ------------------------------------------------------ the feed routes
\* GET /posts and GET /submolts/:name/feed.

maxLimit == 100
MaxQueryLen == 3

\* The characters a limit or offset parameter is made of here: a sign, three
\* digits and a letter.
QueryChars == {"-", "0", "1", "9", "x"}
Digits == {"0", "1", "2", "5", "9"}
DigitValue(c) ==
  CASE c = "0" -> 0 [] c = "1" -> 1 [] c = "2" -> 2 [] c = "5" -> 5 [] OTHER -> 9

\* A query parameter is missing or a text of at most MaxQueryLen characters.
Absent == <<"absent">>
QueryTexts == UNION {[1..n -> QueryChars] : n \in 0..MaxQueryLen}
QueryValues == {Absent} \cup QueryTexts

\* const { limit = 25, offset = 0 } = req.query
DefaultLimitValue == <<"2", "5">>
DefaultOffsetValue == <<"0">>
Defaulted(raw, default) == IF raw = Absent THEN default ELSE raw

\* JavaScript numbers: an integer or NaN.
NaN == [nan |-> TRUE, val |-> 0]
Num(n) == [nan |-> FALSE, val |-> n]

\* The value of the leading digits of text, read after the digits acc.
RECURSIVE LeadingDigits(_, _)
LeadingDigits(text, acc) ==
  IF text = <<>> \/ Head(text) \notin Digits
    THEN acc
    ELSE LeadingDigits(Tail(text), acc * 10 + DigitValue(Head(text)))

\* parseInt(text, 10): an optional sign, then as many digits as there are;
\* NaN when there is none.
parseInt(text) ==
  LET negative == text # <<>> /\ Head(text) = "-"
      digits == IF negative THEN Tail(text) ELSE text
  IN IF digits = <<>> \/ Head(digits) \notin Digits
       THEN NaN
       ELSE Num((IF negative THEN -1 ELSE 1) * LeadingDigits(digits, 0))

\* Math.min(a, b): NaN when either is NaN.
MathMin(a, b) ==
  IF a.nan \/ b.nan THEN NaN ELSE Num(Least(a.val, b.val))

\* a || 0: NaN and 0 are falsy.
OrZero(a) == IF a.nan THEN Num(0) ELSE a

\* limit: Math.min(parseInt(limit, 10), config.pagination.maxLimit)
PassedLimit(raw) == MathMin(parseInt(Defaulted(raw, DefaultLimitValue)), Num(maxLimit))

\* offset: parseInt(offset, 10) || 0
PassedOffset(raw) == OrZero(parseInt(Defaulted(raw, DefaultOffsetValue)))

\* LIMIT $1 OFFSET $2: the store refuses a limit that is no number and a
\* negative limit or offset; the request then fails.
StoreRejects(limit, offset) == limit.nan \/ limit.val < 0 \/ offset.val < 0

\* The request carries no agent.
Anonymous == 0

\* VoteService.getVotes and votes.get(post.id) || null: the viewer's vote on
\* the post, "none" for null. (design document, section 4.3)
UserVote(viewer, p) ==
  IF <<viewer, p>> \in DOMAIN votes THEN CurrentDirection(votes[<<viewer, p>>])
  ELSE "none"

\* GET /posts: the page of getFeed, each post with the viewer's vote.
GetPosts(viewer, sort, rawLimit, rawOffset, submolt) ==
  /\ LET limit == PassedLimit(rawLimit)
         offset == PassedOffset(rawOffset)
         answer(status, items) ==
           [op |-> "GET /posts", viewer |-> viewer, sort |-> sort,
            submolt |-> submolt, limit |-> limit, offset |-> offset,
            status |-> status, items |-> items]
     IN IF StoreRejects(limit, offset)
          THEN response' = answer(500, <<>>)
          ELSE \E rows \in getFeed(sort, limit.val, offset.val, submolt) :
                 response' = answer(200,
                   [i \in DOMAIN rows |->
                      [id |-> rows[i],
                       userVote |-> IF viewer = Anonymous THEN "none"
                                    ELSE UserVote(viewer, rows[i])]])
  /\ UNCHANGED <<score, voteVars, scall, followVars, karmaVars, agentVars>>
  /\ UNCHANGED <<posts, subscriptions, now, nextId, pageLog, dcall, ncalls>>

\* GET /submolts/:name/feed: the page of getBySubmolt as it is; the posts
\* carry no userVote field.
GetSubmoltFeed(viewer, name, sort, rawLimit, rawOffset) ==
  /\ LET limit == MathMin(parseInt(Defaulted(rawLimit, DefaultLimitValue)), Num(100))
         offset == PassedOffset(rawOffset)
         answer(status, items) ==
           [op |-> "GET /submolts/:name/feed", viewer |-> viewer, sort |-> sort,
            submolt |-> name, limit |-> limit, offset |-> offset,
            status |-> status, items |-> items]
     IN IF StoreRejects(limit, offset)
          THEN response' = answer(500, <<>>)
          ELSE \E rows \in getFeed(sort, limit.val, offset.val, name) :
                 response' = answer(200,
                   [i \in DOMAIN rows |-> [id |-> rows[i], userVote |-> "absent"]])
  /\ UNCHANGED <<score, voteVars, scall, followVars, karmaVars, agentVars>>
  /\ UNCHANGED <<posts, subscriptions, now, nextId, pageLog, dcall, ncalls>>

\* Requests with any limit and offset parameters against an empty store.
InitQuery == InitFollow

NextQuery ==
  \/ /\ response = NoResponse
     /\ \E rawLimit, rawOffset \in QueryValues :
          GetPosts(Anonymous, "hot", rawLimit, rawOffset, Null)
  \/ /\ response = NoResponse
     /\ \E rawLimit, rawOffset \in QueryValues :
          GetSubmoltFeed(Anonymous, "general", "hot", rawLimit, rawOffset)

SpecQuery == InitQuery /\ [][NextQuery]_vars

\* ------------------------------------------------ feeds seen by a viewer
\* The tables hold NumFeedPosts posts in "general" and any committed votes of
\* the voters on them; each score is the sum of the votes on the post.

VoteRows == {<<>>, <<"up">>, <<"down">>}

RECURSIVE SumOfVotes(_, _, _)
SumOfVotes(vs, p, voters) ==
  IF voters = {} THEN 0
  ELSE LET v == CHOOSE x \in voters : TRUE
       IN DirValue(CurrentDirection(vs[<<v, p>>])) + SumOfVotes(vs, p, voters \ {v})

InitView ==
  /\ nreq = 0
  /\ votes \in [Voters \X FeedPosts -> VoteRows]
  /\ score = [p \in FeedPosts |-> SumOfVotes(votes, p, Voters)]
  /\ vcall = [r \in VoteCalls |-> IdleVote]
  /\ applied = [x \in Voters \X FeedPosts |->
                  DirValue(CurrentDirection(votes[x]))]
  /\ deltaSum = [p \in FeedPosts |-> score[p]]
  /\ last = NoVote
  /\ scall = [c \in ScoreCalls |-> IdleScoreCall]
  /\ follows = [x \in Agents \X Agents |-> 0]
  /\ following_count = [a \in Agents |-> 0]
  /\ follower_count = [a \in Agents |-> 0]
  /\ fcall = [c \in FollowCalls |-> NoFollowCall]
  /\ flast = "none"
  /\ nfollow = 0
  /\ posts = [p \in FeedPosts |->
                [author_id |-> 1, submolt |-> "general", created_at |-> p,
                 comment_count |-> 0]]
  /\ subscriptions = {}
  /\ now = NumFeedPosts
  /\ nextId = NumFeedPosts + 1
  /\ response = NoResponse
  /\ pageLog = NoPages
  /\ dcall = NoDelete
  /\ ncalls = 0
  /\ KarmaIdle
  /\ AgentsIdle

NextView ==
  \/ /\ response = NoResponse
     /\ \E viewer \in {Anonymous} \cup Voters, sort \in {"hot", "new"} :
          GetPosts(viewer, sort, Absent, Absent, Null)
  \/ /\ response = NoResponse
     /\ \E viewer \in {Anonymous} \cup Voters, sort \in {"hot", "new"} :
          GetSubmoltFeed(viewer, "general", sort, Absent, Absent)

SpecView == InitView /\ [][NextView]_vars

\* ------------------------------------------------------ paging a feed
\* A client reads one feed page after page: the same sort and limit each
\* time, the offset moved on by the limit, until a page comes back short.
\* Nothing writes to the store meanwhile.

GlobalFeeds == {[kind |-> "getFeed", of |-> m] : m \in {Null} \cup Submolts}
PersonalizedFeeds == {[kind |-> "getPersonalizedFeed", of |-> a] : a \in Agents}

PageOf(feed, sort, limit, offset) ==
  IF feed.kind = "getFeed"
    THEN getFeed(sort, limit, offset, feed.of)
    ELSE getPersonalizedFeed(feed.of, sort, limit, offset)

FirstPage(feed, sort, limit) ==
  /\ pageLog = NoPages
  /\ \E rows \in PageOf(feed, sort, limit, 0) :
       pageLog' = [feed |-> feed, sort |-> sort, limit |-> limit,
                   pages |-> <<rows>>]
  /\ UNCHANGED <<score, voteVars, scall, followVars, karmaVars, agentVars>>
  /\ UNCHANGED <<posts, subscriptions, now, nextId, response, dcall, ncalls>>

NextPage ==
  /\ pageLog # NoPages
  /\ Len(pageLog.pages[Len(pageLog.pages)]) = pageLog.limit
  /\ \E rows \in PageOf(pageLog.feed, pageLog.sort, pageLog.limit,
                        Len(pageLog.pages) * pageLog.limit) :
       pageLog' = [pageLog EXCEPT !.pages = Append(@, rows)]
  /\ UNCHANGED <<score, voteVars, scall, followVars, karmaVars, agentVars>>
  /\ UNCHANGED <<posts, subscriptions, now, nextId, response, dcall, ncalls>>

NextPaging ==
  \/ \E feed \in GlobalFeeds \cup PersonalizedFeeds, sort \in SortInputs,
        limit \in 1..NumFeedPosts :
       FirstPage(feed, sort, limit)
  \/ NextPage

SpecPaging == InitRank /\ [][NextPaging]_vars

\* ------------------------------------------ posts and the calls around them
\* Every operation that touches posts, votes, follows or subscriptions, at
\* most MaxCalls calls in one behaviour, and any reads.
MaxCalls == 1

Budget == nreq + nfollow + ncalls < MaxCalls

\* PostService.create: the validations, the submolt lookup, the INSERT. The
\* row's score and comment_count are the column defaults, created_at is the
\* time of the INSERT; the clock moves on before the next one.
PostCreate(authorId, submolt, valid) ==
  /\ nextId <= NumFeedPosts
  /\ ncalls' = ncalls + 1
  /\ IF ~valid
       THEN /\ response' = [op |-> "create", error |-> "BadRequestError"]
            /\ UNCHANGED <<posts, score, nextId, now>>
       ELSE IF ToLowerCase(submolt) \notin Submolts
         THEN /\ response' = [op |-> "create", error |-> "NotFoundError"]
              /\ UNCHANGED <<posts, score, nextId, now>>
         ELSE /\ posts' = posts @@ (nextId :>
                   [author_id |-> authorId, submolt |-> ToLowerCase(submolt),
                    created_at |-> now, comment_count |-> 0])
              /\ score' = score @@ (nextId :> DefaultScore)
              /\ nextId' = nextId + 1
              /\ now' = now + 1
              /\ response' = [op |-> "create", error |-> "none", id |-> nextId]
  /\ UNCHANGED <<voteVars, scall, followVars, karmaVars, agentVars, subscriptions, pageLog, dcall>>

\* PostService.findById
PostFindById(id) ==
  /\ response' = IF id \in DOMAIN posts
                   THEN [op |-> "findById", error |-> "none", items |-> <<id>>]
                   ELSE [op |-> "findById", error |-> "NotFoundError", items |-> <<>>]
  /\ UNCHANGED <<score, voteVars, scall, followVars, karmaVars, agentVars>>
  /\ UNCHANGED <<posts, subscriptions, now, nextId, pageLog, dcall, ncalls>>

\* post.author_id !== agentId
AnyoneMayDelete(authorId, agentId) == FALSE
NotAuthor(authorId, agentId) == authorId # agentId

\* PostService.delete, up to the DELETE: the SELECT and the two checks.
PostDeleteSelect(postId, agentId) ==
  /\ dcall = NoDelete
  /\ ncalls' = ncalls + 1
  /\ IF postId \notin DOMAIN posts
       THEN /\ response' = [op |-> "delete", error |-> "NotFoundError",
                            id |-> postId, agentId |-> agentId]
            /\ UNCHANGED dcall
       ELSE IF NotAuthor(posts[postId].author_id, agentId)
         THEN /\ response' = [op |-> "delete", error |-> "ForbiddenError",
                              id |-> postId, agentId |-> agentId]
              /\ UNCHANGED dcall
         ELSE /\ dcall' = [pc |-> "selected", id |-> postId, agentId |-> agentId]
              /\ UNCHANGED response
  /\ UNCHANGED <<score, voteVars, scall, followVars, karmaVars, agentVars>>
  /\ UNCHANGED <<posts, subscriptions, now, nextId, pageLog>>

\* DELETE FROM posts WHERE id = $1: the row goes, and its score with it.
Without(f, id) == [x \in DOMAIN f \ {id} |-> f[x]]
PostDeleteRun ==
  /\ dcall # NoDelete
  /\ posts' = Without(posts, dcall.id)
  /\ score' = Without(score, dcall.id)
  /\ response' = [op |-> "delete", error |-> "none",
                  id |-> dcall.id, agentId |-> dcall.agentId]
  /\ dcall' = NoDelete
  /\ UNCHANGED <<voteVars, scall, followVars, karmaVars, agentVars>>
  /\ UNCHANGED <<subscriptions, now, nextId, pageLog, ncalls>>

\* UPDATE posts SET comment_count = comment_count + 1 WHERE id = $1: the rows
\* of the table after the statement.
CommentCountedIntoScore(rows, sc, postId) ==
  [posts |-> rows,
   score |-> IF postId \in DOMAIN sc THEN [sc EXCEPT ![postId] = @ + 1] ELSE sc]
CommentCounted(rows, sc, postId) ==
  [posts |-> IF postId \in DOMAIN rows
               THEN [rows EXCEPT ![postId].comment_count = @ + 1]
               ELSE rows,
   score |-> sc]

\* PostService.incrementCommentCount
PostIncrementCommentCount(postId) ==
  /\ ncalls' = ncalls + 1
  /\ LET after == CommentCounted(posts, score, postId)
     IN /\ posts' = after.posts
        /\ score' = after.score
  /\ response' = [op |-> "incrementCommentCount", error |-> "none"]
  /\ UNCHANGED <<voteVars, scall, followVars, karmaVars, agentVars>>
  /\ UNCHANGED <<subscriptions, now, nextId, pageLog, dcall>>

\* POST /submolts/:name/subscribe: one subscription row per (agent, submolt).
\* (design document, section 3)
Subscribe(agentId, submolt) ==
  /\ ncalls' = ncalls + 1
  /\ subscriptions' = subscriptions \cup {<<agentId, submolt>>}
  /\ response' = [op |-> "subscribe",
                  error |-> IF <<agentId, submolt>> \in subscriptions
                              THEN "ConflictError" ELSE "none"]
  /\ UNCHANGED <<score, voteVars, scall, followVars, karmaVars, agentVars>>
  /\ UNCHANGED <<posts, now, nextId, pageLog, dcall>>

\* DELETE /submolts/:name/subscribe
Unsubscribe(agentId, submolt) ==
  /\ ncalls' = ncalls + 1
  /\ subscriptions' = subscriptions \ {<<agentId, submolt>>}
  /\ response' = [op |-> "unsubscribe",
                  error |-> IF <<agentId, submolt>> \in subscriptions
                              THEN "none" ELSE "NotFoundError"]
  /\ UNCHANGED <<score, voteVars, scall, followVars, karmaVars, agentVars>>
  /\ UNCHANGED <<posts, now, nextId, pageLog, dcall>>

\* The store is empty, or holds post 1 of agent 1 in "general" with the vote
\* of voter 1 on it, if any; agent 2 follows agent 1 or nobody follows
\* anybody.
InitApi ==
  /\ nreq = 0
  /\ vcall = [r \in VoteCalls |-> IdleVote]
  /\ last = NoVote
  /\ scall = [c \in ScoreCalls |-> IdleScoreCall]
  /\ \E n \in {0, 1} :
       /\ follows = [x \in Agents \X Agents |-> IF x = <<2, 1>> THEN n ELSE 0]
       /\ following_count = [a \in Agents |-> IF a = 2 THEN n ELSE 0]
       /\ follower_count = [a \in Agents |-> IF a = 1 THEN n ELSE 0]
  /\ fcall = [c \in FollowCalls |-> NoFollowCall]
  /\ flast = "none"
  /\ nfollow = 0
  /\ subscriptions = {}
  /\ response = NoResponse
  /\ pageLog = NoPages
  /\ dcall = NoDelete
  /\ ncalls = 0
  /\ KarmaIdle
  /\ AgentsIdle
  /\ \E held \in {<<"empty">>} \cup VoteRows :
       LET sc == IF held = <<"empty">> THEN 0
                 ELSE DirValue(CurrentDirection(held))
       IN
       /\ votes = [x \in Voters \X FeedPosts |->
                     IF x = <<1, 1>> /\ held # <<"empty">> THEN held ELSE <<>>]
       /\ applied = [x \in Voters \X FeedPosts |-> IF x = <<1, 1>> THEN sc ELSE 0]
       /\ deltaSum = [p \in FeedPosts |-> IF p = 1 THEN sc ELSE 0]
       /\ IF held = <<"empty">>
            THEN /\ posts = <<>>
                 /\ score = <<>>
                 /\ now = 0
                 /\ nextId = 1
            ELSE /\ posts = (1 :> [author_id |-> 1, submolt |-> "general",
                                   created_at |-> 0, comment_count |-> 0])
                 /\ score = (1 :> sc)
                 /\ now = 1
                 /\ nextId = 2

\* One vote, one follow or unfollow and one delete can be in flight at a
\* time, next to the calls that are a single statement.
NextApi ==
  \/ /\ Budget
     /\ \E a \in Agents, m \in SubmoltInputs \cup {"nowhere"}, valid \in BOOLEAN :
          PostCreate(a, m, valid)
  \/ \E p \in FeedPosts : PostFindById(p)
  \/ /\ Budget
     /\ \E p \in FeedPosts, a \in Agents : PostDeleteSelect(p, a)
  \/ PostDeleteRun
  \/ /\ Budget
     /\ \E p \in FeedPosts : PostIncrementCommentCount(p)
  \/ GetFeedCall("hot", Null)
  \/ \E a \in Agents : GetPersonalizedFeedCall(a, "hot")
  \/ /\ Budget
     /\ \E a \in Agents, m \in Submolts : Subscribe(a, m)
  \/ /\ Budget
     /\ \E a \in Agents, m \in Submolts : Unsubscribe(a, m)
  \/ /\ Budget
     /\ \E v \in Voters, p \in FeedPosts, d \in Requested : VoteNotFound(1, v, p, d)
  \/ /\ Budget
     /\ \E v \in Voters, p \in FeedPosts, d \in Requested : VoteBegin(1, v, p, d)
  \/ VoteWriteRow(1)
  \/ VoteCommit(1)
  \/ VoteAbort(1)
  \/ /\ Budget
     /\ \E a \in Agents, b \in Agents : FollowSelf(1, a, b)
  \/ /\ Budget
     /\ \E a \in Agents, b \in Agents : FollowCheck(1, a, b)
  \/ FollowCommit(1)
  \/ \E k \in 1..3 : FollowFail(1, k)
  \/ /\ Budget
     /\ \E a \in Agents, b \in Agents : UnfollowDelete(1, a, b)
  \/ UnfollowDecFollowing(1)
  \/ UnfollowDecFollower(1)
  \/ \E w \in {"following_count", "follower_count"} : UnfollowUpdateFails(1, w)

SpecApi == InitApi /\ [][NextApi]_vars

\* ------------------------------------------------------- karma of authors

\* AgentService.updateKarma: UPDATE agents SET karma = karma + $2 WHERE id = $1
updateKarma(k, id, delta) ==
  IF id \in DOMAIN k THEN [k EXCEPT ![id] = @ + delta] ELSE k

\* The COMMIT of a vote on a post; the author's karma is to move by the same
\* delta in a statement of its own, AgentService.updateKarma, which the vote
\* issues next. received adds what the score of the author's post moved by.
VoteCommitThenKarma(r) ==
  LET c == vcall[r] IN
  /\ VoteTransactionCommit(r)
  /\ IF c.post \in DOMAIN posts
       THEN /\ kcall' = kcall \cup
                 {[id |-> nreq, agent |-> posts[c.post].author_id,
                   delta |-> VoteDelta(c.old, c.dir)]}
            /\ received' = [received EXCEPT ![posts[c.post].author_id] =
                              @ + score'[c.post] - score[c.post]]
       ELSE UNCHANGED <<kcall, received>>
  /\ UNCHANGED <<karma, agentVars>>

\* The UPDATE of agents.karma runs.
KarmaRun(k) ==
  /\ k \in kcall
  /\ karma' = updateKarma(karma, k.agent, k.delta)
  /\ kcall' = kcall \ {k}
  /\ UNCHANGED <<score, voteVars, scall, followVars, feedVars, received, agentVars>>

\* The UPDATE fails, or the process dies before it, after the vote committed.
KarmaFail(k) ==
  /\ k \in kcall
  /\ kcall' = kcall \ {k}
  /\ UNCHANGED <<score, voteVars, scall, followVars, feedVars, karma, received, agentVars>>

\* Votes requested in a behaviour that follows the karma.
MaxKarmaVotes == 2

\* Post 1 of agent 1 exists, unvoted; the agents' karma is 0.
InitKarma ==
  /\ nreq = 0
  /\ vcall = [r \in VoteCalls |-> IdleVote]
  /\ last = NoVote
  /\ scall = [c \in ScoreCalls |-> IdleScoreCall]
  /\ follows = [x \in Agents \X Agents |-> 0]
  /\ following_count = [a \in Agents |-> 0]
  /\ follower_count = [a \in Agents |-> 0]
  /\ fcall = [c \in FollowCalls |-> NoFollowCall]
  /\ flast = "none"
  /\ nfollow = 0
  /\ subscriptions = {}
  /\ response = NoResponse
  /\ pageLog = NoPages
  /\ dcall = NoDelete
  /\ ncalls = 0
  /\ KarmaIdle
  /\ AgentsIdle
  /\ votes = [x \in Voters \X FeedPosts |-> <<>>]
  /\ applied = [x \in Voters \X FeedPosts |-> 0]
  /\ deltaSum = [p \in FeedPosts |-> 0]
  /\ posts = (1 :> [author_id |-> 1, submolt |-> "general",
                    created_at |-> 0, comment_count |-> 0])
  /\ score = (1 :> DefaultScore)
  /\ now = 1
  /\ nextId = 2

NextKarma ==
  \/ /\ nreq < MaxKarmaVotes
     /\ \E v \in Voters, p \in FeedPosts, d \in Requested : VoteNotFound(1, v, p, d)
  \/ /\ nreq < MaxKarmaVotes
     /\ \E v \in Voters, p \in FeedPosts, d \in Requested : VoteBegin(1, v, p, d)
  \/ VoteWriteRow(1)
  \/ VoteCommitThenKarma(1)
  \/ VoteAbort(1)
  \/ \E k \in kcall : KarmaRun(k)
  \/ \E k \in kcall : KarmaFail(k)
  \/ /\ ncalls < MaxCalls
     /\ \E p \in FeedPosts, a \in Agents : PostDeleteSelect(p, a)
  \/ PostDeleteRun

SpecKarma == InitKarma /\ [][NextKarma]_vars

\* ------------------------------------------------- claiming an agent

\* The twitterData a claim carries: the account's id and its handle.
TwitterData == [id : Agents, handle : {"handle"}]

\* Claim tokens of the registered agents, and one no agent has.
ClaimTokens == 0..NumAgents

\* WHERE claim_token = $1 AND is_claimed = false
ClaimableAgain(row, claimToken) == row.claim_token = claimToken
Claimable(row, claimToken) ==
  row.claim_token = claimToken /\ ~row.is_claimed

\* SET is_claimed = true, status = 'active', owner_twitter_id = $2,
\* owner_twitter_handle = $3, claimed_at = NOW()
Claimed(row, twitterData, at) ==
  [row EXCEPT !.is_claimed = TRUE,
              !.status = "active",
              !.owner_twitter_id = twitterData.id,
              !.owner_twitter_handle = twitterData.handle,
              !.claimed_at = at]

\* A caller issues AgentService.claim(claimToken, twitterData); the UPDATE
\* has not reached the store yet.
ClaimIssue(c, claimToken, twitterData) ==
  /\ acall[c].pc = "idle"
  /\ \A q \in AgentCalls : q < c => acall[q].pc # "idle"
  /\ acall' = [acall EXCEPT ![c] =
       [pc |-> "pending", op |-> "claim", claimToken |-> claimToken,
        twitterData |-> twitterData]]
  /\ UNCHANGED <<score, voteVars, scall, followVars, feedVars, karmaVars>>
  /\ UNCHANGED <<agents, nameUnique>>

\* AgentService.claim: the store executes the UPDATE ... RETURNING; without a
\* returned row the call throws NotFoundError.
ClaimRun(c) ==
  LET call == acall[c]
      hit == {i \in DOMAIN agents : Claimable(agents[i], call.claimToken)}
  IN
  /\ call.pc = "pending"
  /\ call.op = "claim"
  /\ agents' = [i \in DOMAIN agents |->
                  IF i \in hit THEN Claimed(agents[i], call.twitterData, now)
                  ELSE agents[i]]
  /\ acall' = [acall EXCEPT ![c] =
       [pc |-> "done", op |-> "claim", claimToken |-> call.claimToken,
        twitterData |-> call.twitterData,
        result |-> IF hit = {} THEN "NotFoundError" ELSE "agent"]]
  /\ UNCHANGED <<score, voteVars, scall, followVars, feedVars, karmaVars>>
  /\ UNCHANGED nameUnique

\* The row AgentService.register inserts: the columns the INSERT names and
\* the defaults of those the claim writes.
NoOwner == 0
NeverClaimed == -1
PendingAgent(name, displayName, claimToken) ==
  [name |-> name, display_name |-> displayName, status |-> "pending_claim",
   is_claimed |-> FALSE, claim_token |-> claimToken,
   owner_twitter_id |-> NoOwner, owner_twitter_handle |-> "",
   claimed_at |-> NeverClaimed]

\* The name of the i-th agent registered before the claims: i + 1 letters.
NameOf(i) == [k \in 1..(i + 1) |-> "a"]

\* NumAgents agents have registered and none is claimed.
InitClaim ==
  /\ nreq = 0
  /\ score = <<>>
  /\ votes = [x \in Voters \X Posts |-> <<>>]
  /\ vcall = [r \in VoteCalls |-> IdleVote]
  /\ applied = [x \in Voters \X Posts |-> 0]
  /\ deltaSum = [p \in Posts |-> 0]
  /\ last = NoVote
  /\ scall = [c \in ScoreCalls |-> IdleScoreCall]
  /\ follows = [x \in Agents \X Agents |-> 0]
  /\ following_count = [a \in Agents |-> 0]
  /\ follower_count = [a \in Agents |-> 0]
  /\ fcall = [c \in FollowCalls |-> NoFollowCall]
  /\ flast = "none"
  /\ nfollow = 0
  /\ posts = <<>>
  /\ subscriptions = {}
  /\ now = 0
  /\ nextId = 1
  /\ response = NoResponse
  /\ pageLog = NoPages
  /\ dcall = NoDelete
  /\ ncalls = 0
  /\ karma = [a \in Agents |-> 0]
  /\ kcall = {}
  /\ received = [a \in Agents |-> 0]
  /\ agents = [i \in Agents |-> PendingAgent(NameOf(i), NameOf(i), i)]
  /\ acall = [c \in AgentCalls |-> NoAgentCall]
  /\ nameUnique = TRUE

NextClaim ==
  \/ \E c \in AgentCalls, t \in ClaimTokens, d \in TwitterData : ClaimIssue(c, t, d)
  \/ \E c \in AgentCalls : ClaimRun(c)

SpecClaim == InitClaim /\ [][NextClaim]_vars

\* ------------------------------------------------ registering an agent

\* The characters a name is made of here: two letters that differ in case
\* only and a blank; a name has at most MaxNameLen of them.
MaxNameLen == 3
NameChars == {"a", "A", " "}
NameTexts == UNION {[1..n -> NameChars] : n \in 0..MaxNameLen}

\* What a request can carry as name: nothing, or a text.
NameInputs == {Absent} \cup NameTexts

\* String.prototype.toLowerCase
toLowerCase(text) ==
  [i \in DOMAIN text |-> IF text[i] = "A" THEN "a" ELSE text[i]]

\* String.prototype.trim
RECURSIVE trimStart(_)
trimStart(text) ==
  IF text # <<>> /\ Head(text) = " " THEN trimStart(Tail(text)) ELSE text
RECURSIVE trimEnd(_)
trimEnd(text) ==
  IF text # <<>> /\ text[Len(text)] = " "
    THEN trimEnd(SubSeq(text, 1, Len(text) - 1))
    ELSE text
trim(text) == trimEnd(trimStart(text))

\* !name || typeof name !== 'string'
NameMissing(name) == name = Absent \/ name = <<>>

\* const normalizedName = name.toLowerCase().trim()
NormalizedName(name) == trim(toLowerCase(name))

\* normalizedName.length < 2 || normalizedName.length > 32
MinNameLength == 2
MaxNameLength == 32
BadLength(normalizedName) ==
  Len(normalizedName) < MinNameLength \/ Len(normalizedName) > MaxNameLength

\* /^[\p{L}\p{N}_]+$/u
MatchesNamePattern(normalizedName) ==
  /\ normalizedName # <<>>
  /\ \A i \in DOMAIN normalizedName :
       normalizedName[i] \in {"a", "A", "_"} \cup Digits

\* SELECT id FROM agents WHERE name = $1
NameTaken(rows, normalizedName) ==
  \E i \in DOMAIN rows : rows[i].name = normalizedName

\* How a register call ended.
Registered(outcome, normalizedName) ==
  [pc |-> "done", op |-> "register", result |-> outcome,
   name |-> normalizedName]

\* AgentService.register up to the INSERT: the validations and the SELECT
\* that looks for the name.
RegisterCheck(c, name) ==
  /\ acall[c].pc = "idle"
  /\ \A q \in AgentCalls : q < c => acall[q].pc # "idle"
  /\ acall' = [acall EXCEPT ![c] =
       IF NameMissing(name) THEN Registered("BadRequestError", <<>>)
       ELSE IF BadLength(NormalizedName(name))
         THEN Registered("BadRequestError", <<>>)
       ELSE IF ~MatchesNamePattern(NormalizedName(name))
         THEN Registered("BadRequestError", <<>>)
       ELSE IF NameTaken(agents, NormalizedName(name))
         THEN Registered("ConflictError", NormalizedName(name))
       ELSE [pc |-> "checked", op |-> "register",
             name |-> NormalizedName(name), display_name |-> trim(name)]]
  /\ UNCHANGED <<score, voteVars, scall, followVars, feedVars, karmaVars>>
  /\ UNCHANGED <<agents, nameUnique>>

\* AgentService.register: the INSERT. Where agents.name is UNIQUE the store
\* rejects a second row of the name with its error 23505, which register
\* does not catch; where it is not, the row is inserted.
RegisterInsert(c) ==
  LET call == acall[c] IN
  /\ call.pc = "checked"
  /\ call.op = "register"
  /\ IF nameUnique /\ NameTaken(agents, call.name)
       THEN /\ acall' = [acall EXCEPT ![c] = Registered("23505", call.name)]
            /\ UNCHANGED agents
       ELSE /\ agents' = Append(agents,
                 PendingAgent(call.name, call.display_name, Len(agents) + 1))
            /\ acall' = [acall EXCEPT ![c] = Registered("created", call.name)]
  /\ UNCHANGED <<score, voteVars, scall, followVars, feedVars, karmaVars>>
  /\ UNCHANGED nameUnique

\* No agent has registered; agents.name is UNIQUE in the schema or not.
InitRegister ==
  /\ nreq = 0
  /\ score = <<>>
  /\ votes = [x \in Voters \X Posts |-> <<>>]
  /\ vcall = [r \in VoteCalls |-> IdleVote]
  /\ applied = [x \in Voters \X Posts |-> 0]
  /\ deltaSum = [p \in Posts |-> 0]
  /\ last = NoVote
  /\ scall = [c \in ScoreCalls |-> IdleScoreCall]
  /\ follows = [x \in Agents \X Agents |-> 0]
  /\ following_count = [a \in Agents |-> 0]
  /\ follower_count = [a \in Agents |-> 0]
  /\ fcall = [c \in FollowCalls |-> NoFollowCall]
  /\ flast = "none"
  /\ nfollow = 0
  /\ posts = <<>>
  /\ subscriptions = {}
  /\ now = 0
  /\ nextId = 1
  /\ response = NoResponse
  /\ pageLog = NoPages
  /\ dcall = NoDelete
  /\ ncalls = 0
  /\ karma = [a \in Agents |-> 0]
  /\ kcall = {}
  /\ received = [a \in Agents |-> 0]
  /\ agents = <<>>
  /\ acall = [c \in AgentCalls |-> NoAgentCall]
  /\ nameUnique \in BOOLEAN

NextRegister ==
  \/ \E c \in AgentCalls, name \in NameInputs : RegisterCheck(c, name)
  \/ \E c \in AgentCalls : RegisterInsert(c)

SpecRegister == InitRegister /\ [][NextRegister]_vars

\* ------------------------------------------------ properties of the feeds

IsFeed == response.op \in {"getFeed", "getPersonalizedFeed"}

\* Pairs of positions of the returned page, the first above the second.
Above ==
  {x \in (DOMAIN response.items) \X (DOMAIN response.items) : x[1] < x[2]}
ItemAt(i) == response.items[i]

\* C12: under top, in the global and in the personalized feed, a post with a
\* higher score is returned before one with a lower score, whatever their
\* creation times.
C12_TopOrdersByScore ==
  (IsFeed /\ response.sort = "top") =>
    \A x \in Above : score[ItemAt(x[1])] >= score[ItemAt(x[2])]

\* The personalized feed was read under top over posts of different scores,
\* the one with the higher score being the older.
C12_Witness ==
  /\ IsFeed
  /\ response.sort = "top"
  /\ response.op = "getPersonalizedFeed"
  /\ \E x \in Above :
       /\ score[ItemAt(x[1])] > score[ItemAt(x[2])]
       /\ posts[ItemAt(x[1])].created_at < posts[ItemAt(x[2])].created_at

\* C13: under top, in the global, the submolt and the personalized feed, posts
\* of equal score are returned newest first.
C13_TopTiesNewestFirst ==
  (IsFeed /\ response.sort = "top") =>
    \A x \in Above :
      score[ItemAt(x[1])] = score[ItemAt(x[2])] =>
        posts[ItemAt(x[1])].created_at >= posts[ItemAt(x[2])].created_at

\* C14: under hot, which is also what an unknown sort falls back to, of two
\* posts of equal score the more recent one is returned at or above the
\* older one, whether the score is zero, positive or negative.
HotRequested == response.sort \in {"hot", "unknown"}
C14_HotNewerFirstAtEqualScore ==
  (IsFeed /\ HotRequested) =>
    \A x \in Above :
      score[ItemAt(x[1])] = score[ItemAt(x[2])] =>
        posts[ItemAt(x[1])].created_at >= posts[ItemAt(x[2])].created_at

\* A hot feed returned two posts of the same negative score created at
\* different times.
C14_Witness ==
  /\ IsFeed
  /\ HotRequested
  /\ \E x \in Above :
       /\ score[ItemAt(x[1])] = score[ItemAt(x[2])]
       /\ score[ItemAt(x[1])] < 0
       /\ posts[ItemAt(x[1])].created_at > posts[ItemAt(x[2])].created_at

\* C15: for hot, new, top and rising the personalized feed returns its
\* candidates in an order the global feed's ORDER BY for that mode allows.
C15_PersonalizedOrdersAsGlobal ==
  (response.op = "getPersonalizedFeed"
     /\ response.sort \in {"hot", "new", "top", "rising"}) =>
    \A x \in Above : ~FeedOrderBy(response.sort, ItemAt(x[2]), ItemAt(x[1]))

\* C11: the personalized feed of a viewer holds exactly the existing posts
\* whose submolt the viewer subscribes to or whose author the viewer follows,
\* each of them once, also when both hold, and no other post.
ReturnedIds == {response.items[i] : i \in DOMAIN response.items}
C11_PersonalizedCandidates ==
  response.op = "getPersonalizedFeed" =>
    /\ ReturnedIds =
         {p \in DOMAIN posts :
            \/ <<response.viewer, posts[p].submolt>> \in subscriptions
            \/ follows[<<response.viewer, posts[p].author_id>>] > 0}
    /\ Cardinality(ReturnedIds) = Len(response.items)

\* A viewer's feed was read while one post qualified by its submolt and by
\* its author at once and another post qualified by neither.
C11_Witness ==
  /\ response.op = "getPersonalizedFeed"
  /\ \E p \in ReturnedIds :
       /\ <<response.viewer, posts[p].submolt>> \in subscriptions
       /\ follows[<<response.viewer, posts[p].author_id>>] > 0
  /\ \E q \in DOMAIN posts : q \notin ReturnedIds

IsRoute == response.op \in {"GET /posts", "GET /submolts/:name/feed"}

\* C16: whatever limit and offset parameters GET /posts or
\* GET /submolts/:name/feed receives, the limit handed to getFeed is an
\* integer from 1 to 100 and the offset an integer of at least 0.
C16_LimitAndOffsetClamped ==
  IsRoute =>
    /\ ~response.limit.nan
    /\ response.limit.val >= 1
    /\ response.limit.val <= maxLimit
    /\ ~response.offset.nan
    /\ response.offset.val >= 0

\* C17: with nothing written between the requests, the pages of one feed
\* fetched with the same sort and limit at offsets 0, limit, 2 * limit, ...
\* have no post in common, and once a page comes back short they hold every
\* candidate of the feed.
PageIds(i) == {pageLog.pages[i][k] : k \in DOMAIN pageLog.pages[i]}
PagedCandidates ==
  IF pageLog.feed.kind = "getFeed"
    THEN {p \in DOMAIN posts :
            pageLog.feed.of = Null \/ posts[p].submolt = pageLog.feed.of}
    ELSE {p \in DOMAIN posts :
            \/ <<pageLog.feed.of, posts[p].submolt>> \in subscriptions
            \/ follows[<<pageLog.feed.of, posts[p].author_id>>] > 0}
C17_PagesPartitionCandidates ==
  pageLog # NoPages =>
    /\ \A i, j \in DOMAIN pageLog.pages : i # j => PageIds(i) \cap PageIds(j) = {}
    /\ Len(pageLog.pages[Len(pageLog.pages)]) < pageLog.limit =>
         UNION {PageIds(i) : i \in DOMAIN pageLog.pages} = PagedCandidates

\* C18: every item of a page of GET /posts or GET /submolts/:name/feed shows
\* the viewer's current vote on the post, or none when the viewer has not
\* voted on it or the request is unauthenticated. An item without a userVote
\* field is read as showing none.
ShownVote(item) == IF item.userVote = "absent" THEN "none" ELSE item.userVote
ViewersVote(viewer, p) ==
  IF viewer = Anonymous \/ votes[<<viewer, p>>] = <<>> THEN "none"
  ELSE votes[<<viewer, p>>][1]
C18_ItemsCarryViewersVote ==
  (IsRoute /\ response.status = 200) =>
    \A i \in DOMAIN response.items :
      ShownVote(response.items[i]) = ViewersVote(response.viewer, response.items[i].id)

\* C19: PostService.delete(postId, agentId) removes the post only when agentId
\* is its author; for a missing post it ends in NotFoundError, for another
\* agent's post in ForbiddenError, both leaving the posts as they were; a
\* removed post is gone after the DELETE, never comes back, and no getFeed,
\* getPersonalizedFeed or findById returns a post that is not in the table.
DeleteRefused == ncalls' # ncalls /\ dcall' = dcall /\ response'.op = "delete"
ReadAnswered ==
  /\ response' # response
  /\ response'.op \in {"getFeed", "getPersonalizedFeed", "findById"}
C19_DeleteOnlyByAuthor ==
  [][ /\ \A p \in DOMAIN posts \ DOMAIN posts' :
           /\ dcall # NoDelete
           /\ dcall.id = p
           /\ posts[p].author_id = dcall.agentId
           /\ response'.op = "delete"
           /\ response'.error = "none"
      /\ DeleteRefused =>
           /\ response'.error =
                IF response'.id \notin DOMAIN posts THEN "NotFoundError"
                ELSE "ForbiddenError"
           /\ response'.id \in DOMAIN posts =>
                posts[response'.id].author_id # response'.agentId
           /\ posts' = posts
           /\ score' = score
      /\ (dcall # NoDelete /\ dcall' = NoDelete) => dcall.id \notin DOMAIN posts'
      /\ \A p \in 1..(nextId - 1) : p \notin DOMAIN posts => p \notin DOMAIN posts'
      /\ ReadAnswered =>
           \A i \in DOMAIN response'.items : response'.items[i] \in DOMAIN posts
    ]_vars

\* The author deleted a post, and a feed or findById was answered afterwards.
C19_Witness ==
  /\ response.op \in {"getFeed", "getPersonalizedFeed", "findById"}
  /\ \E p \in 1..(nextId - 1) : p \notin DOMAIN posts

C21_SameDirectionTwiceIsRoundTrip ==
  [][\A r \in VoteCalls :
       (Committing(r) /\ vcall[r].old = vcall[r].dir) =>
         LET v == vcall[r].voter
             p == vcall[r].post
         IN /\ votes'[v, p] = <<>>
            /\ score'[p] = score[p] - DirValue(vcall[r].dir)
            /\ applied'[v, p] = 0
            /\ (\A w \in Voters \ {v} : votes[w, p] = <<>> /\ applied[w, p] = 0)
                 => score'[p] = DefaultScore]_vars

\* Two requests were made in all, down and down by one voter on a fresh
\* target: the second has committed, the score is 0 and no Vote row is left.
C21_Witness ==
  /\ nreq = 2
  /\ last.outcome = "ok" /\ last.old = "down" /\ last.dir = "down"
  /\ \A r \in VoteCalls : vcall[r].pc = "idle"
  /\ \E p \in DOMAIN score :
       score[p] = 0 /\ \A v \in Voters : votes[v, p] = <<>>


\* C22: in every reachable state each agent's karma equals the sum of the
\* score deltas that votes have applied to the agent's posts.
C22_KarmaEqualsAppliedDeltas ==
  \A a \in Agents : karma[a] = received[a]

\* C24: follow(a, b) while a follows b returns 'already_following', and
\* unfollow(a, b) while a does not follow b returns 'not_following'; either
\* call ends there and leaves the Follow relation and every agent's two
\* counters as they were, so a repeated call changes nothing more.
C24_RepeatedFollowChangesNothing ==
  [][\A c \in FollowCalls, a \in Agents, b \in Agents :
       /\ (FollowCheck(c, a, b) /\ follows[a, b] >= 1) =>
            /\ flast' = "already_following"
            /\ fcall' = fcall
            /\ UNCHANGED <<follows, following_count, follower_count>>
       /\ (UnfollowDelete(c, a, b) /\ follows[a, b] = 0) =>
            /\ flast' = "not_following"
            /\ fcall' = fcall
            /\ UNCHANGED <<follows, following_count, follower_count>>]_vars

\* A second follow(a, b) has just returned 'already_following' after the
\* first one committed.
C24_Witness ==
  /\ flast = "already_following"
  /\ nfollow = 2
  /\ Quiescent
  /\ \E a, b \in Agents :
       follows[a, b] = 1 /\ following_count[a] = 1 /\ follower_count[b] = 1

\* The claim calls that have returned the agent for a token.
ClaimedBy(t) ==
  {c \in AgentCalls :
     /\ acall[c].pc = "done" /\ acall[c].op = "claim"
     /\ acall[c].claimToken = t /\ acall[c].result = "agent"}
ClaimsDone(t) ==
  {c \in AgentCalls :
     acall[c].pc = "done" /\ acall[c].op = "claim" /\ acall[c].claimToken = t}

\* C23: of the claim calls made with one agent's token, in any interleaving,
\* exactly one returns the agent, and the agent's row is claimed, active and
\* carries that call's owner fields; every other call fails with
\* NotFoundError, and no later step changes a claimed row.
C23_TokenClaimedOnce ==
  /\ [](\A i \in DOMAIN agents :
          LET t == agents[i].claim_token IN
          /\ ClaimsDone(t) # {} => Cardinality(ClaimedBy(t)) = 1
          /\ \A c \in ClaimsDone(t) \ ClaimedBy(t) :
               acall[c].result = "NotFoundError"
          /\ agents[i].is_claimed <=> ClaimedBy(t) # {}
          /\ \A c \in ClaimedBy(t) :
               /\ agents[i].is_claimed
               /\ agents[i].status = "active"
               /\ agents[i].owner_twitter_id = acall[c].twitterData.id
               /\ agents[i].owner_twitter_handle = acall[c].twitterData.handle)
  /\ [][\A i \in DOMAIN agents :
          agents[i].is_claimed => agents'[i] = agents[i]]_vars

\* Two calls with the same token and different owners are done: one has the
\* agent, the other NotFoundError, and the row has the first one's owner.
C23_Witness ==
  \E c, d \in AgentCalls, i \in DOMAIN agents :
    /\ c \in ClaimedBy(agents[i].claim_token)
    /\ d \in ClaimsDone(agents[i].claim_token)
    /\ acall[d].result = "NotFoundError"
    /\ acall[d].twitterData.id # acall[c].twitterData.id
    /\ agents[i].owner_twitter_id = acall[c].twitterData.id

\* C25: after any interleaving of register calls no two agents have the
\* same normalized name, and a call with a well-formed name either creates
\* the agent or fails with ConflictError.
C25_OneAgentPerName ==
  /\ \A i, j \in DOMAIN agents : agents[i].name = agents[j].name => i = j
  /\ \A c \in AgentCalls :
       (acall[c].pc = "done" /\ acall[c].op = "register"
          /\ acall[c].result # "BadRequestError") =>
         acall[c].result \in {"created", "ConflictError"}

====
